---- MODULE Spec2Model ----
(***************************************************************************)
(* DataUARTHandler (HalsDataHandlerClass.cpp): the double-buffered read of *)
(* the mmWave data port.  start() spawns three threads,                    *)
(*    readIncomingData()  - the Reader,                                    *)
(*    sortIncomingData()  - the Sorter,                                    *)
(*    syncedBufferSwap()  - the Swap thread,                               *)
(* which share countSync, the two ping/pong buffers, the two buffer        *)
(* pointers, three mutexes and three condition variables.                  *)
(*                                                                         *)
(* Every statement that blocks, or that another thread can observe, is one *)
(* step of its thread; the position of each thread is kept in pc.          *)
(* pthread_cond_wait is modelled as NPTL behaves with one waiter per       *)
(* condition variable: it returns only after a pthread_cond_signal that    *)
(* was sent while the thread was blocked in it; a signal sent while nobody *)
(* waits is lost.                                                          *)
(***************************************************************************)
EXTENDS Integers, Sequences, FiniteSets, TLC

\* ---------------------------------------------------------------- bounds
\* Number of frames the sensor transmits after the initial magic word.
MaxFrames == 2
\* Number of serial reads that time out (100 ms without a byte).
MaxTimeouts == 1

\* ------------------------------------------------------ program constants
COUNT_SYNC_MAX == 2
magicWord == <<2, 1, 4, 3, 6, 5, 8, 7>>

\* enum SorterState
READ_HEADER == "READ_HEADER"
CHECK_TLV_TYPE == "CHECK_TLV_TYPE"
READ_OBJ_STRUCT == "READ_OBJ_STRUCT"
READ_LOG_MAG_RANGE == "READ_LOG_MAG_RANGE"
READ_NOISE == "READ_NOISE"
READ_AZIMUTH == "READ_AZIMUTH"
READ_DOPPLER == "READ_DOPPLER"
READ_STATS == "READ_STATS"
SWAP_BUFFERS == "SWAP_BUFFERS"

\* enum MmwDemo_Output_TLV_Types
MMWDEMO_OUTPUT_MSG_NULL == 0
MMWDEMO_OUTPUT_MSG_DETECTED_POINTS == 1
MMWDEMO_OUTPUT_MSG_RANGE_PROFILE == 2
MMWDEMO_OUTPUT_MSG_NOISE_PROFILE == 3
MMWDEMO_OUTPUT_MSG_AZIMUTH_STATIC_HEAT_MAP == 4
MMWDEMO_OUTPUT_MSG_RANGE_DOPPLER_HEAT_MAP == 5
MMWDEMO_OUTPUT_MSG_STATS == 6
MMWDEMO_OUTPUT_MSG_MAX == 7

\* ----------------------------------------------------------- byte helpers
U16 == 65536

\* A 32-bit unsigned value u is kept as the integer with the same 32 bits
\* in two's complement: u below 2^31 as u, otherwise as u - 2^32.  The
\* shifts and masks of the code (\\div and % by powers of two) read the same
\* bits from either.
MaxI32 == 2147483647

\* a + b modulo 2^32, on that representation
Add32(a, b) ==
    IF a >= 0 /\ b >= 0 /\ a > MaxI32 - b THEN (a - MaxI32 - 1) + (b - MaxI32 - 1)
    ELSE IF a < 0 /\ b < 0 /\ a < (-MaxI32 - 1) - b THEN (a + MaxI32 + 1) + (b + MaxI32 + 1)
    ELSE a + b

\* u < n and u >= n as unsigned comparisons with a small n >= 0
Below32(u, n) == u >= 0 /\ u < n

\* little-endian encoding, as the sensor writes its words
LE32(x) == << x % 256, (x \div 256) % 256, (x \div 65536) % 256, (x \div 16777216) % 256 >>
LE16(x) == << x % 256, (x \div 256) % 256 >>

\* ------------------------------------------------------------- the state
VARIABLES
    rosOk,            \* ros::ok()
    crashed,          \* the process was aborted (uncaught exception, fault)
    pc,               \* position of main and of the three threads
    countSync,
    currentBufp,      \* index into pingPongBuffers of the drain buffer
    nextBufp,         \* index into pingPongBuffers of the fill buffer
    pingPongBuffers,  \* the two byte vectors
    countSync_mutex,  \* owner of each mutex, or "none"
    nextBufp_mutex,
    currentBufp_mutex,
    destroyed,        \* start() destroyed the mutexes and condition variables
    \* the angle filter, set by the constructor and by the two setters
    maxAllowedElevationAngleDeg,
    maxAllowedAzimuthAngleDeg,
    \* Reader locals
    firstPacketReady,
    last8Bytes,
    \* Sorter locals
    sorterState,
    currentDatap,
    tlvCount,
    tlvType,
    tlvLen,
    headerSize,
    mmwData,
    RScan,
    \* the serial link and the topic
    rx,               \* bytes the sensor has sent and the Reader has not read
    framesSent,
    timeouts,
    published,        \* the clouds published on RScan, in order, each with the
                      \* frame number, the size of the drain buffer and the
                      \* header it was parsed from
    \* history
    framed,           \* frame boundaries the Reader has detected
    swaps,            \* exchanges Swap has made
    drains,           \* drains the Sorter has completed (SWAP_BUFFERS entered)
    bufTag,           \* per buffer: the number of the frame it holds, 0 if none
    drainLog,         \* the frame numbers the Sorter took up, in order
    readerBuf,        \* the buffer the Reader has appended to or cleared since it
                      \* took nextBufp_mutex, -1 if none
    sorterBuf,        \* the buffer the Sorter has worked on since it took
                      \* currentBufp_mutex, -1 if none
    skipped           \* bytes the Reader consumed in the synchronising loop,
                      \* forgotten when it clears a buffer for the next frame

shared == << rosOk, crashed, pc, countSync, currentBufp, nextBufp, pingPongBuffers,
             countSync_mutex, nextBufp_mutex, currentBufp_mutex, destroyed >>
readerVars == << firstPacketReady, last8Bytes >>
sorterVars == << sorterState, currentDatap, tlvCount, tlvType, tlvLen, headerSize, mmwData, RScan >>
linkVars == << rx, framesSent, timeouts >>
history == << framed, swaps, drains, bufTag, drainLog, readerBuf, sorterBuf, skipped >>
config == << maxAllowedElevationAngleDeg, maxAllowedAzimuthAngleDeg >>
vars == << shared, config, readerVars, sorterVars, linkVars, published, history >>

Threads == {"reader", "sorter", "swap"}

\* --------------------------------------------------- the sensor's frames
\* A header without subFrameNumber (28 bytes).
Header28(version, totalPacketLen, platform, frameNumber, numDetectedObj, numTLVs) ==
    LE32(version) \o LE32(totalPacketLen) \o LE32(platform) \o LE32(frameNumber)
      \o LE32(0) \o LE32(numDetectedObj) \o LE32(numTLVs)

\* One detected object: rangeIdx, dopplerIdx, peakVal, x, y, z (16 bits each).
ObjBytes(o) ==
    LE16(o.rangeIdx) \o LE16(o.dopplerIdx) \o LE16(o.peakVal)
      \o LE16(o.x % U16) \o LE16(o.y % U16) \o LE16(o.z % U16)

\* SDK 1.2 on an xWR1443: the 28-byte header.
Version12 == 16908288
Platform1443 == 5187
QFormat == 8
Obj1 == [rangeIdx |-> 10, dopplerIdx |-> 0, peakVal |-> 99, x |-> 0, y |-> 256, z |-> 0]

\* a line glitch: fewer bytes than a header
FrameShort == <<9, 9, 9>>
\* a frame with no TLV; with the next magic word the buffer holds 36 bytes
FrameEmpty == Header28(Version12, 32, Platform1443, 7, 0, 0)
\* a frame with one detected-objects TLV holding one object (52 + 8 bytes)
FrameObj(totalPacketLen) ==
    Header28(Version12, totalPacketLen, Platform1443, 7, 1, 1)
      \o LE32(MMWDEMO_OUTPUT_MSG_DETECTED_POINTS) \o LE32(16)
      \o LE16(1) \o LE16(QFormat) \o ObjBytes(Obj1)
FrameObjOk == FrameObj(56)
\* the same frame with totalPacketLen off by one
FrameObjBadLen == FrameObj(57)

FrameKinds == { FrameShort, FrameObjOk, FrameObjBadLen }
\* bytes on the line before the first magic word
Garbage == { <<>>, <<255>>, <<2, 1, 4>>, <<0, 2, 1, 4, 3, 6, 5, 8>> }

\* -------------------------------------------------------------- helpers
\* A comparison that stops one byte short of the window.
isMagicWordFirst7(w) ==
    LET j == Cardinality({ i \in 1..7 : w[i] = magicWord[i] })
    IN  IF j = 7 THEN 1 ELSE 0

isMagicWord(w) ==
    LET j == Cardinality({ i \in 1..8 : w[i] = magicWord[i] })
    IN  IF j = 8 THEN 1 ELSE 0

\* the window after the seven copies and a read that stores b at [7]
ShiftIn(w, b) == << w[2], w[3], w[4], w[5], w[6], w[7], w[8], b >>

\* pthread_mutex_lock returns when the mutex is free
MutexFree(m) == m = "none"

\* pthread_cond_signal: the thread blocked in the wait, if any, is released
\* to reacquire its mutex; otherwise nothing happens
Signal(p, t, waiting, relock) ==
    IF p[t] = waiting THEN [p EXCEPT ![t] = relock] ELSE p

\* The exchange written without the temporary: both pointers end on the
\* fill buffer.
SwapPointersNoTemp(cur, nxt) == <<nxt, nxt>>
\* syncedBufferSwap's exchange of the two pointers, as << currentBufp, nextBufp >>
SwapPointers(cur, nxt) ==
    LET tempBufp == cur
    IN  << nxt, tempBufp >>

\* A constructor that points both pointers at pingPongBuffers[0].
InitPointersSame == <<0, 0>>
\* the constructor's member initialisers, as << currentBufp, nextBufp >>
InitPointers == << 0, 1 >>

\* maxAllowedElevationAngleDeg = 90; maxAllowedAzimuthAngleDeg = 90
DefaultAngleDeg == 90

Goto(t, l) == [pc EXCEPT ![t] = l]
Alive == ~crashed

ZeroWindow == << 0, 0, 0, 0, 0, 0, 0, 0 >>
ZeroObj == [rangeIdx |-> 0, dopplerIdx |-> 0, peakVal |-> 0, x |-> 0, y |-> 0, z |-> 0]
ZeroData == [version |-> 0, totalPacketLen |-> 0, platform |-> 0, frameNumber |-> 0,
             timeCpuCycles |-> 0, numDetectedObj |-> 0, numTLVs |-> 0,
             subFrameNumber |-> 0, numObjOut |-> 0, xyzQFormat |-> 0,
             objOut |-> ZeroObj]

\* The process is aborted (an uncaught exception ends in std::terminate, a
\* fault in a signal): its threads and its memory are gone; what remains is
\* what was published.
Die ==
    /\ crashed' = TRUE
    /\ rosOk' = FALSE
    /\ pc' = [main |-> "dead", reader |-> "dead", sorter |-> "dead", swap |-> "dead"]
    /\ countSync' = 0
    /\ currentBufp' = 0
    /\ nextBufp' = 1
    /\ pingPongBuffers' = [b \in 0..1 |-> <<>>]
    /\ countSync_mutex' = "none"
    /\ nextBufp_mutex' = "none"
    /\ currentBufp_mutex' = "none"
    /\ destroyed' = FALSE
    /\ firstPacketReady' = 0
    /\ last8Bytes' = ZeroWindow
    /\ sorterState' = READ_HEADER
    /\ currentDatap' = 0
    /\ tlvCount' = 0
    /\ tlvType' = MMWDEMO_OUTPUT_MSG_NULL
    /\ tlvLen' = 0
    /\ headerSize' = 0
    /\ mmwData' = ZeroData
    /\ RScan' = [width |-> 0, points |-> <<>>]
    /\ rx' = <<>>
    /\ framesSent' = 0
    /\ timeouts' = 0
    /\ framed' = 0
    /\ swaps' = 0
    /\ drains' = 0
    /\ bufTag' = [b \in 0..1 |-> 0]
    /\ drainLog' = <<>>
    /\ readerBuf' = -1
    /\ sorterBuf' = -1
    /\ skipped' = 0
    /\ UNCHANGED << config, published >>

\* ------------------------------------------------------------------ Init
\* The state once the constructor and the initialisations at the top of
\* start() have run: no thread exists yet.
Init ==
    /\ rosOk = TRUE
    /\ crashed = FALSE
    /\ pc = [main |-> "create_reader", reader |-> "idle", sorter |-> "idle", swap |-> "idle"]
    /\ countSync = 0
    /\ currentBufp = InitPointers[1]
    /\ nextBufp = InitPointers[2]
    /\ pingPongBuffers = [b \in 0..1 |-> <<>>]
    /\ countSync_mutex = "none"
    /\ nextBufp_mutex = "none"
    /\ currentBufp_mutex = "none"
    /\ destroyed = FALSE
    /\ maxAllowedElevationAngleDeg = DefaultAngleDeg
    /\ maxAllowedAzimuthAngleDeg = DefaultAngleDeg
    /\ firstPacketReady = 0
    /\ last8Bytes = ZeroWindow
    /\ sorterState = READ_HEADER
    /\ currentDatap = 0
    /\ tlvCount = 0
    /\ tlvType = MMWDEMO_OUTPUT_MSG_NULL
    /\ tlvLen = 0
    /\ headerSize = 0
    /\ mmwData = ZeroData
    /\ RScan = [width |-> 0, points |-> <<>>]
    /\ rx \in { g \o magicWord : g \in Garbage }
    /\ framesSent = 0
    /\ timeouts = 0
    /\ published = <<>>
    /\ framed = 0
    /\ swaps = 0
    /\ drains = 0
    /\ bufTag = [b \in 0..1 |-> 0]
    /\ drainLog = <<>>
    /\ readerBuf = -1
    /\ sorterBuf = -1
    /\ skipped = 0

\* ----------------------------------------------------- the environment
\* The sensor sends the next frame, followed by the magic word of the one
\* after it.  The line is looked at only by the Reader's read, so the
\* arrival is placed where the Reader is about to read.
Transmit ==
    /\ Alive
    /\ pc["reader"] \in {"r_sync", "r_loop"}
    /\ rx = <<>>
    /\ framesSent < MaxFrames
    /\ \E f \in FrameKinds : rx' = f \o magicWord
    /\ framesSent' = framesSent + 1
    /\ UNCHANGED << config, shared, readerVars, sorterVars, timeouts, published, history >>

\* A shutdown is requested (SIGINT, ros::shutdown()) while start() is in
\* ros::spin().
Shutdown ==
    /\ Alive
    /\ rosOk
    /\ pc["main"] = "spin"
    /\ rosOk' = FALSE
    /\ UNCHANGED << config, crashed, pc, countSync, currentBufp, nextBufp, pingPongBuffers,
                    countSync_mutex, nextBufp_mutex, currentBufp_mutex, destroyed,
                    readerVars, sorterVars, linkVars, published, history >>

\* -------------------------------------------------------------- start()
FirstLabel(t) ==
    CASE t = "reader" -> "r_open"
      [] t = "sorter" -> "s_lock_cs0"
      [] t = "swap"   -> "w_loop"

AfterCreate(t) ==
    CASE t = "reader" -> "create_sorter"
      [] t = "sorter" -> "create_swap"
      [] t = "swap"   -> "spin"

\* pthread_create of thread t; on failure ros::shutdown() is called and
\* start() goes on.
MainCreate(t) ==
    /\ Alive
    /\ pc["main"] = "create_" \o t
    /\ \/ /\ pc' = [pc EXCEPT !["main"] = AfterCreate(t), ![t] = FirstLabel(t)]
          /\ UNCHANGED rosOk
       \/ /\ pc' = Goto("main", AfterCreate(t))
          /\ rosOk' = FALSE
    /\ UNCHANGED << config, crashed, countSync, currentBufp, nextBufp, pingPongBuffers,
                    countSync_mutex, nextBufp_mutex, currentBufp_mutex, destroyed,
                    readerVars, sorterVars, linkVars, published, history >>

\* ros::spin() returns once ros::ok() is false; then
\*   pthread_join(iret1), pthread_join(iret2), pthread_join(iret3)
\* are called on the ints pthread_create returned, not on the pthread_t
\* handles, so no thread of this program is waited for: the calls fail at
\* once or fault on the bogus handle.  After them the three mutexes and the
\* three condition variables are destroyed and start() returns.
MainFinish ==
    /\ Alive
    /\ pc["main"] = "spin"
    /\ ~rosOk
    /\ \/ /\ pc' = Goto("main", "done")
          /\ destroyed' = TRUE
          /\ UNCHANGED << config, rosOk, crashed, countSync, currentBufp, nextBufp, pingPongBuffers,
                          countSync_mutex, nextBufp_mutex, currentBufp_mutex,
                          readerVars, sorterVars, linkVars, published, history >>
       \/ Die

Main ==
    \/ \E t \in Threads : MainCreate(t)
    \/ MainFinish

\* ----------------------------------------------------- readIncomingData
\* mySerialObject.read(&last8Bytes[7], 1) after the seven copies: the next
\* byte of the line, or, when the line is idle for 100 ms, nothing, which
\* leaves last8Bytes[7] as it was.  The result is << window, rx, timeouts >>.
CanRead == rx # <<>> \/ timeouts < MaxTimeouts
SerialRead(w) ==
    IF rx # <<>>
    THEN << ShiftIn(w, Head(rx)), Tail(rx), timeouts >>
    ELSE << ShiftIn(w, w[8]), rx, timeouts + 1 >>

\* mySerialObject.open(), and the second attempt 20 s after a failure;
\* after two failures the thread exits.
ReaderOpen ==
    /\ Alive
    /\ pc["reader"] \in {"r_open", "r_retry"}
    /\ \E opened \in BOOLEAN :
          pc' = Goto("reader", IF opened THEN "r_sync"
                               ELSE IF pc["reader"] = "r_open" THEN "r_retry" ELSE "r_done")
    /\ UNCHANGED << config, rosOk, crashed, countSync, currentBufp, nextBufp, pingPongBuffers,
                    countSync_mutex, nextBufp_mutex, currentBufp_mutex, destroyed,
                    readerVars, sorterVars, linkVars, published, history >>

\* One turn of the synchronising loop: read one byte into the window.
ReaderSync ==
    /\ Alive
    /\ pc["reader"] = "r_sync"
    /\ isMagicWord(last8Bytes) = 0
    /\ CanRead
    /\ LET r == SerialRead(last8Bytes)
       IN  /\ last8Bytes' = r[1]
           /\ rx' = r[2]
           /\ timeouts' = r[3]
           /\ skipped' = skipped + 1
    /\ UNCHANGED << config, shared, firstPacketReady, sorterVars, framesSent, published,
                    framed, swaps, drains, bufTag, drainLog, readerBuf, sorterBuf >>

\* The window holds the magic word: leave the loop.
ReaderSynced ==
    /\ Alive
    /\ pc["reader"] = "r_sync"
    /\ isMagicWord(last8Bytes) = 1
    /\ pc' = Goto("reader", "r_lock_next0")
    /\ UNCHANGED << config, rosOk, crashed, countSync, currentBufp, nextBufp, pingPongBuffers,
                    countSync_mutex, nextBufp_mutex, currentBufp_mutex, destroyed,
                    readerVars, sorterVars, linkVars, published, history >>

\* pthread_mutex_lock(&nextBufp_mutex), before the loop and after a swap
ReaderLockNext ==
    /\ Alive
    /\ pc["reader"] \in {"r_lock_next0", "r_lock_next"}
    /\ MutexFree(nextBufp_mutex)
    /\ nextBufp_mutex' = "reader"
    /\ pc' = Goto("reader", IF pc["reader"] = "r_lock_next0" THEN "r_loop" ELSE "r_clear")
    /\ UNCHANGED << config, rosOk, crashed, countSync, currentBufp, nextBufp, pingPongBuffers,
                    countSync_mutex, currentBufp_mutex, destroyed,
                    readerVars, sorterVars, linkVars, published, history >>

\* One turn of the main loop: read a byte, push it onto *nextBufp, test the
\* window for the magic word.
ReaderByte ==
    /\ Alive
    /\ pc["reader"] = "r_loop"
    /\ rosOk
    /\ CanRead
    /\ LET r == SerialRead(last8Bytes)
           found == isMagicWord(r[1]) = 1
       IN  /\ last8Bytes' = r[1]
           /\ rx' = r[2]
           /\ timeouts' = r[3]
           /\ pingPongBuffers' = [pingPongBuffers EXCEPT
                                    ![nextBufp] = Append(@, r[1][8])]
           /\ readerBuf' = nextBufp
           /\ pc' = Goto("reader", IF found THEN "r_lock_cs" ELSE "r_loop")
           /\ framed' = IF found THEN framed + 1 ELSE framed
           /\ bufTag' = IF found THEN [bufTag EXCEPT ![nextBufp] = framed + 1] ELSE bufTag
    /\ UNCHANGED << config, rosOk, crashed, countSync, currentBufp, nextBufp,
                    countSync_mutex, nextBufp_mutex, currentBufp_mutex, destroyed,
                    firstPacketReady, sorterVars, framesSent, published,
                    swaps, drains, drainLog, sorterBuf, skipped >>

\* ros::ok() is false at the top of the loop: close the port and exit.
ReaderExit ==
    /\ Alive
    /\ pc["reader"] = "r_loop"
    /\ ~rosOk
    /\ pc' = Goto("reader", "r_done")
    /\ UNCHANGED << config, rosOk, crashed, countSync, currentBufp, nextBufp, pingPongBuffers,
                    countSync_mutex, nextBufp_mutex, currentBufp_mutex, destroyed,
                    readerVars, sorterVars, linkVars, published, history >>

\* pthread_mutex_lock(&countSync_mutex), still holding nextBufp_mutex
ReaderLockCount ==
    /\ Alive
    /\ pc["reader"] = "r_lock_cs"
    /\ MutexFree(countSync_mutex)
    /\ countSync_mutex' = "reader"
    /\ pc' = Goto("reader", "r_unlock_next")
    /\ UNCHANGED << config, rosOk, crashed, countSync, currentBufp, nextBufp, pingPongBuffers,
                    nextBufp_mutex, currentBufp_mutex, destroyed,
                    readerVars, sorterVars, linkVars, published, history >>

\* pthread_mutex_unlock(&nextBufp_mutex)
ReaderUnlockNext ==
    /\ Alive
    /\ pc["reader"] = "r_unlock_next"
    /\ nextBufp_mutex' = "none"
    /\ readerBuf' = -1
    /\ pc' = Goto("reader", "r_inc")
    /\ UNCHANGED << config, rosOk, crashed, countSync, currentBufp, nextBufp, pingPongBuffers,
                    countSync_mutex, currentBufp_mutex, destroyed,
                    readerVars, sorterVars, linkVars, published,
                    framed, swaps, drains, bufTag, drainLog, sorterBuf, skipped >>

\* A Reader that counts every frame boundary twice, not only the first.
ReaderIncrementAlways2(first) == 2
\* what the Reader adds to countSync at a frame boundary
ReaderIncrement(first) == IF first = 0 THEN 2 ELSE 1

\* countSync++, and once more for the first packet
ReaderCount ==
    /\ Alive
    /\ pc["reader"] = "r_inc"
    /\ countSync' = countSync + ReaderIncrement(firstPacketReady)
    /\ firstPacketReady' = 1
    /\ pc' = Goto("reader", "r_sig")
    /\ UNCHANGED << config, rosOk, crashed, currentBufp, nextBufp, pingPongBuffers,
                    countSync_mutex, nextBufp_mutex, currentBufp_mutex, destroyed,
                    last8Bytes, sorterVars, linkVars, published, history >>

\* A test that lets a worker signal Swap on the first increment.
AtMaxEarly(c) == c >= 1

\* if(countSync == COUNT_SYNC_MAX), in the Reader and in the Sorter
AtMax(c) == c = COUNT_SYNC_MAX

\* if(countSync == COUNT_SYNC_MAX) pthread_cond_signal(&countSync_max_cv)
ReaderSignal ==
    /\ Alive
    /\ pc["reader"] = "r_sig"
    /\ pc' = [ (IF AtMax(countSync)
                 THEN Signal(pc, "swap", "w_wait", "w_relock") ELSE pc)
               EXCEPT !["reader"] = "r_enter_wait" ]
    /\ UNCHANGED << config, rosOk, crashed, countSync, currentBufp, nextBufp, pingPongBuffers,
                    countSync_mutex, nextBufp_mutex, currentBufp_mutex, destroyed,
                    readerVars, sorterVars, linkVars, published, history >>

\* pthread_cond_wait(&read_go_cv, &countSync_mutex): release the mutex and block
ReaderWait ==
    /\ Alive
    /\ pc["reader"] = "r_enter_wait"
    /\ countSync_mutex' = "none"
    /\ pc' = Goto("reader", "r_wait")
    /\ UNCHANGED << config, rosOk, crashed, countSync, currentBufp, nextBufp, pingPongBuffers,
                    nextBufp_mutex, currentBufp_mutex, destroyed,
                    readerVars, sorterVars, linkVars, published, history >>

\* the wait returns: the mutex is held again
ReaderWake ==
    /\ Alive
    /\ pc["reader"] = "r_relock"
    /\ MutexFree(countSync_mutex)
    /\ countSync_mutex' = "reader"
    /\ pc' = Goto("reader", "r_unlock_cs")
    /\ UNCHANGED << config, rosOk, crashed, countSync, currentBufp, nextBufp, pingPongBuffers,
                    nextBufp_mutex, currentBufp_mutex, destroyed,
                    readerVars, sorterVars, linkVars, published, history >>

\* pthread_mutex_unlock(&countSync_mutex)
ReaderUnlockCount ==
    /\ Alive
    /\ pc["reader"] = "r_unlock_cs"
    /\ countSync_mutex' = "none"
    /\ pc' = Goto("reader", "r_lock_next")
    /\ UNCHANGED << config, rosOk, crashed, countSync, currentBufp, nextBufp, pingPongBuffers,
                    nextBufp_mutex, currentBufp_mutex, destroyed,
                    readerVars, sorterVars, linkVars, published, history >>

\* nextBufp->clear(); memset(last8Bytes, 0, sizeof(last8Bytes))
ReaderClear ==
    /\ Alive
    /\ pc["reader"] = "r_clear"
    /\ pingPongBuffers' = [pingPongBuffers EXCEPT ![nextBufp] = <<>>]
    /\ last8Bytes' = ZeroWindow
    /\ readerBuf' = nextBufp
    /\ bufTag' = [bufTag EXCEPT ![nextBufp] = 0]
    /\ pc' = Goto("reader", "r_loop")
    /\ skipped' = 0
    /\ UNCHANGED << config, rosOk, crashed, countSync, currentBufp, nextBufp,
                    countSync_mutex, nextBufp_mutex, currentBufp_mutex, destroyed,
                    firstPacketReady, sorterVars, linkVars, published,
                    framed, swaps, drains, drainLog, sorterBuf >>

Reader ==
    \/ ReaderOpen
    \/ ReaderSync
    \/ ReaderSynced
    \/ ReaderLockNext
    \/ ReaderByte
    \/ ReaderExit
    \/ ReaderLockCount
    \/ ReaderUnlockNext
    \/ ReaderCount
    \/ ReaderSignal
    \/ ReaderWait
    \/ ReaderWake
    \/ ReaderUnlockCount
    \/ ReaderClear

\* ----------------------------------------------------- syncedBufferSwap
\* while(ros::ok()) at the top of the outer loop
SwapLoop ==
    /\ Alive
    /\ pc["swap"] = "w_loop"
    /\ pc' = Goto("swap", IF rosOk THEN "w_lock_cs" ELSE "w_done")
    /\ UNCHANGED << config, rosOk, crashed, countSync, currentBufp, nextBufp, pingPongBuffers,
                    countSync_mutex, nextBufp_mutex, currentBufp_mutex, destroyed,
                    readerVars, sorterVars, linkVars, published, history >>

\* pthread_mutex_lock(&countSync_mutex)
SwapLockCount ==
    /\ Alive
    /\ pc["swap"] = "w_lock_cs"
    /\ MutexFree(countSync_mutex)
    /\ countSync_mutex' = "swap"
    /\ pc' = Goto("swap", "w_while")
    /\ UNCHANGED << config, rosOk, crashed, countSync, currentBufp, nextBufp, pingPongBuffers,
                    nextBufp_mutex, currentBufp_mutex, destroyed,
                    readerVars, sorterVars, linkVars, published, history >>

\* while(countSync < COUNT_SYNC_MAX): enter pthread_cond_wait(&countSync_max_cv,
\* &countSync_mutex), which releases the mutex and blocks; otherwise leave
\* the inner loop and pthread_mutex_unlock(&countSync_mutex)
SwapWhile ==
    /\ Alive
    /\ pc["swap"] = "w_while"
    /\ countSync_mutex' = "none"
    /\ pc' = Goto("swap", IF countSync < COUNT_SYNC_MAX THEN "w_wait" ELSE "w_loop")
    /\ UNCHANGED << config, rosOk, crashed, countSync, currentBufp, nextBufp, pingPongBuffers,
                    nextBufp_mutex, currentBufp_mutex, destroyed,
                    readerVars, sorterVars, linkVars, published, history >>

\* the wait returns: the mutex is held again
SwapWake ==
    /\ Alive
    /\ pc["swap"] = "w_relock"
    /\ MutexFree(countSync_mutex)
    /\ countSync_mutex' = "swap"
    /\ pc' = Goto("swap", "w_lock_cur")
    /\ UNCHANGED << config, rosOk, crashed, countSync, currentBufp, nextBufp, pingPongBuffers,
                    nextBufp_mutex, currentBufp_mutex, destroyed,
                    readerVars, sorterVars, linkVars, published, history >>

\* pthread_mutex_lock(&currentBufp_mutex)
SwapLockCurrent ==
    /\ Alive
    /\ pc["swap"] = "w_lock_cur"
    /\ MutexFree(currentBufp_mutex)
    /\ currentBufp_mutex' = "swap"
    /\ pc' = Goto("swap", "w_lock_next")
    /\ UNCHANGED << config, rosOk, crashed, countSync, currentBufp, nextBufp, pingPongBuffers,
                    countSync_mutex, nextBufp_mutex, destroyed,
                    readerVars, sorterVars, linkVars, published, history >>

\* pthread_mutex_lock(&nextBufp_mutex)
SwapLockNext ==
    /\ Alive
    /\ pc["swap"] = "w_lock_next"
    /\ MutexFree(nextBufp_mutex)
    /\ nextBufp_mutex' = "swap"
    /\ pc' = Goto("swap", "w_swap")
    /\ UNCHANGED << config, rosOk, crashed, countSync, currentBufp, nextBufp, pingPongBuffers,
                    countSync_mutex, currentBufp_mutex, destroyed,
                    readerVars, sorterVars, linkVars, published, history >>

\* tempBufp = currentBufp; currentBufp = nextBufp; nextBufp = tempBufp
SwapExchange ==
    /\ Alive
    /\ pc["swap"] = "w_swap"
    /\ currentBufp' = SwapPointers(currentBufp, nextBufp)[1]
    /\ nextBufp' = SwapPointers(currentBufp, nextBufp)[2]
    /\ swaps' = swaps + 1
    /\ pc' = Goto("swap", "w_unlock_cur")
    /\ UNCHANGED << config, rosOk, crashed, countSync, pingPongBuffers,
                    countSync_mutex, nextBufp_mutex, currentBufp_mutex, destroyed,
                    readerVars, sorterVars, linkVars, published,
                    framed, drains, bufTag, drainLog, readerBuf, sorterBuf, skipped >>

\* pthread_mutex_unlock(&currentBufp_mutex)
SwapUnlockCurrent ==
    /\ Alive
    /\ pc["swap"] = "w_unlock_cur"
    /\ currentBufp_mutex' = "none"
    /\ pc' = Goto("swap", "w_unlock_next")
    /\ UNCHANGED << config, rosOk, crashed, countSync, currentBufp, nextBufp, pingPongBuffers,
                    countSync_mutex, nextBufp_mutex, destroyed,
                    readerVars, sorterVars, linkVars, published, history >>

\* pthread_mutex_unlock(&nextBufp_mutex)
SwapUnlockNext ==
    /\ Alive
    /\ pc["swap"] = "w_unlock_next"
    /\ nextBufp_mutex' = "none"
    /\ pc' = Goto("swap", "w_reset")
    /\ UNCHANGED << config, rosOk, crashed, countSync, currentBufp, nextBufp, pingPongBuffers,
                    countSync_mutex, currentBufp_mutex, destroyed,
                    readerVars, sorterVars, linkVars, published, history >>

\* countSync = 0
SwapReset ==
    /\ Alive
    /\ pc["swap"] = "w_reset"
    /\ countSync' = 0
    /\ pc' = Goto("swap", "w_sig_sort")
    /\ UNCHANGED << config, rosOk, crashed, currentBufp, nextBufp, pingPongBuffers,
                    countSync_mutex, nextBufp_mutex, currentBufp_mutex, destroyed,
                    readerVars, sorterVars, linkVars, published, history >>

\* pthread_cond_signal(&sort_go_cv)
SwapSignalSort ==
    /\ Alive
    /\ pc["swap"] = "w_sig_sort"
    /\ pc' = [ Signal(Signal(pc, "sorter", "s_wait0", "s_relock0"),
                       "sorter", "s_wait", "s_relock")
               EXCEPT !["swap"] = "w_sig_read" ]
    /\ UNCHANGED << config, rosOk, crashed, countSync, currentBufp, nextBufp, pingPongBuffers,
                    countSync_mutex, nextBufp_mutex, currentBufp_mutex, destroyed,
                    readerVars, sorterVars, linkVars, published, history >>

\* pthread_cond_signal(&read_go_cv), then back to the test of the inner loop
SwapSignalRead ==
    /\ Alive
    /\ pc["swap"] = "w_sig_read"
    /\ pc' = [ Signal(pc, "reader", "r_wait", "r_relock") EXCEPT !["swap"] = "w_while" ]
    /\ UNCHANGED << config, rosOk, crashed, countSync, currentBufp, nextBufp, pingPongBuffers,
                    countSync_mutex, nextBufp_mutex, currentBufp_mutex, destroyed,
                    readerVars, sorterVars, linkVars, published, history >>

Swap ==
    \/ SwapLoop
    \/ SwapLockCount
    \/ SwapWhile
    \/ SwapWake
    \/ SwapLockCurrent
    \/ SwapLockNext
    \/ SwapExchange
    \/ SwapUnlockCurrent
    \/ SwapUnlockNext
    \/ SwapReset
    \/ SwapSignalSort
    \/ SwapSignalRead

\* ----------------------------------------------------- sortIncomingData
\* Configuration: the Doppler bins computed from the chirp parameters.
numDopplerBins == 16

\* Values a read past the end of the vector can return.
JunkBytes == { 0, 255 }

\* currentBufp->at(k) throws std::out_of_range unless k < size()
AtOk(buf, k) == Below32(k, Len(buf))

\* memcpy(&field, &currentBufp->at(k), n): n bytes from offset k, little
\* endian; the bytes past the end of the vector are whatever lies there
ByteAt(buf, k, junk) == IF k < Len(buf) THEN buf[k + 1] ELSE junk
Rd16(buf, k, junk) == ByteAt(buf, k, junk) + 256 * ByteAt(buf, k + 1, junk)
Rd32(buf, k, junk) ==
    LET b3 == ByteAt(buf, k + 3, junk)
    IN  Rd16(buf, k, junk) + 65536 * ByteAt(buf, k + 2, junk)
          + 16777216 * (IF b3 > 127 THEN b3 - 256 ELSE b3)

S16(v) == IF v > 32767 THEN v - 65536 ELSE v

\* int xyzQFormat = pow(2, mmwData.xyzQFormat)
Pow2Int(q) == IF q < 31 THEN 2 ^ q ELSE -MaxI32 - 1

\* the Sorter's locals as a record, with what a step adds: crash (the step
\* ended in an uncaught exception or a fault) and out (the clouds published)
SorterNow ==
    [ crash |-> FALSE, out |-> <<>>,
      sorterState |-> sorterState, currentDatap |-> currentDatap, tlvCount |-> tlvCount,
      tlvType |-> tlvType, tlvLen |-> tlvLen, headerSize |-> headerSize,
      mmwData |-> mmwData, RScan |-> RScan ]

Crash(L) == [L EXCEPT !.crash = TRUE]

\* if((version >> 24 & 0xFF) < 1 || (version >> 16 & 0xFF) < 1) 28
\* else if((platform & 0xFFFF) == 0x1443) 28 else 32
HeaderSizeOf(version, platform) ==
    IF ((version \div 16777216) % 256 < 1) \/ ((version \div 65536) % 256 < 1) THEN 28
    ELSE IF platform % 65536 = 5187 THEN 28
    ELSE 32

\* A header check that accepts every length.
LengthMatchesAlways(totalPacketLen, size) == TRUE
\* if(mmwData.header.totalPacketLen == currentBufp->size() - 4)
LengthMatches(totalPacketLen, size) == totalPacketLen = size - 4

\* case READ_HEADER
ReadHeader(buf, L, junk) ==
    LET d == L.currentDatap
        version == Rd32(buf, d, junk)
        totalPacketLen == Rd32(buf, d + 4, junk)
        platform == Rd32(buf, d + 8, junk)
        hs == HeaderSizeOf(version, platform)
        hasSub == platform % 65536 # 5187
        m1 == [L.mmwData EXCEPT !.version = version, !.totalPacketLen = totalPacketLen,
                                !.platform = platform]
        m2 == [m1 EXCEPT !.frameNumber = Rd32(buf, d + 12, junk),
                         !.timeCpuCycles = Rd32(buf, d + 16, junk),
                         !.numDetectedObj = Rd32(buf, d + 20, junk),
                         !.numTLVs = Rd32(buf, d + 24, junk),
                         !.subFrameNumber = IF hasSub THEN Rd32(buf, d + 28, junk) ELSE @]
        last == IF hasSub THEN d + 28 ELSE d + 24
    IN  IF Len(buf) < 12 THEN [L EXCEPT !.sorterState = SWAP_BUFFERS]
        ELSE IF ~AtOk(buf, d + 8) THEN Crash(L)
        ELSE IF Len(buf) < hs
             THEN [L EXCEPT !.sorterState = SWAP_BUFFERS, !.currentDatap = d + 12,
                            !.headerSize = hs, !.mmwData = m1]
        ELSE IF ~AtOk(buf, last) THEN Crash(L)
        ELSE [L EXCEPT !.sorterState = IF LengthMatches(totalPacketLen, Len(buf))
                                       THEN CHECK_TLV_TYPE ELSE SWAP_BUFFERS,
                       !.currentDatap = last + 4,
                       !.headerSize = hs, !.mmwData = m2]

\* switch(tlvType) in CHECK_TLV_TYPE: the next state, st when no case sets it
TlvDispatch(type, st) ==
    CASE type = MMWDEMO_OUTPUT_MSG_NULL -> st
      [] type = MMWDEMO_OUTPUT_MSG_DETECTED_POINTS -> READ_OBJ_STRUCT
      [] type = MMWDEMO_OUTPUT_MSG_RANGE_PROFILE -> READ_LOG_MAG_RANGE
      [] type = MMWDEMO_OUTPUT_MSG_NOISE_PROFILE -> READ_NOISE
      [] type = MMWDEMO_OUTPUT_MSG_AZIMUTH_STATIC_HEAT_MAP -> READ_AZIMUTH
      [] type = MMWDEMO_OUTPUT_MSG_RANGE_DOPPLER_HEAT_MAP -> READ_DOPPLER
      [] type = MMWDEMO_OUTPUT_MSG_STATS -> READ_STATS
      [] type = MMWDEMO_OUTPUT_MSG_MAX -> READ_HEADER
      [] OTHER -> st

\* case CHECK_TLV_TYPE
CheckTlvType(buf, L, junk) ==
    LET d == L.currentDatap
        type == Rd32(buf, d, junk)
        len == Rd32(buf, d + 4, junk)
        counted == [L EXCEPT !.tlvCount = L.tlvCount + 1]
    IN  IF ~Below32(L.tlvCount, L.mmwData.numTLVs)
        THEN [counted EXCEPT !.sorterState = SWAP_BUFFERS]
        ELSE IF ~AtOk(buf, d) \/ ~AtOk(buf, d + 4) THEN Crash(L)
        ELSE [counted EXCEPT !.tlvType = type, !.tlvLen = len,
                             !.currentDatap = d + 8,
                             !.sorterState = TlvDispatch(type, L.sorterState)]

\* cases READ_LOG_MAG_RANGE, READ_NOISE, READ_AZIMUTH, READ_DOPPLER, READ_STATS
SkipTlv(L) ==
    [L EXCEPT !.currentDatap = Add32(L.currentDatap, L.tlvLen),
              !.sorterState = CHECK_TLV_TYPE]

\* A resize that only ever grows the vector.
ResizeGrowOnly(points, n) ==
    [k \in 1..(IF n < Len(points) THEN Len(points) ELSE n) |->
        IF k <= Len(points) THEN points[k]
        ELSE [xn |-> 0, yn |-> 0, zn |-> 0, den |-> 1,
              peak |-> 0, rangeIdx |-> 0, doppler |-> 0]]

\* RScan->points.resize(n): the first n points, new ones zeroed
ZeroPoint == [xn |-> 0, yn |-> 0, zn |-> 0, den |-> 1,
              peak |-> 0, rangeIdx |-> 0, doppler |-> 0]
Resize(points, n) ==
    [k \in 1..n |-> IF k <= Len(points) THEN points[k] ELSE ZeroPoint]

\* The point of one object.  x, y, z are kept as exact fractions xn/den,
\* yn/den, zn/den (data[j] = (rangeIdx + data[j] * 65536) / xyzQFormat,
\* then x = data[1], y = -data[0], z = data[2]); intensity is
\* 10 log10(peak + 1), range is rangeIdx * rangeIdxToMeters, doppler is
\* doppler * dopplerResolutionToMps.
PointOf(o, q) ==
    [ xn |-> o.rangeIdx + S16(o.y) * 65536,
      yn |-> -(o.rangeIdx + S16(o.x) * 65536),
      zn |-> o.rangeIdx + S16(o.z) * 65536,
      den |-> Pow2Int(q),
      peak |-> o.peakVal,
      rangeIdx |-> o.rangeIdx,
      doppler |-> IF o.dopplerIdx > (numDopplerBins \div 2) - 1
                  THEN o.dopplerIdx - numDopplerBins ELSE o.dopplerIdx ]

\* the filter ratios: -1 (disabled) unless 0 <= angle < 90
AngleDisabled(deg) == ~(deg >= 0 /\ deg < 90)

\* tan(deg * M_PI / 180.0), for the angles of AngleChoices
Tan(deg) == CASE deg = 0 -> 0 [] deg = 45 -> 1

Abs(n) == IF n < 0 THEN -n ELSE n

\* z * z / (x * x + y * y) < t * t for an integer t and the three numerators
\* over a common denominator.  0 / 0 and z / 0 compare false.  The squares
\* are taken only where the magnitudes do not already decide the comparison.
RatioSquaredBelow(z, x, y, t) ==
    IF t = 0 \/ (x = 0 /\ y = 0) THEN FALSE
    ELSE IF Abs(z) < t * Abs(x) \/ Abs(z) < t * Abs(y) THEN TRUE
    ELSE IF Abs(z) >= t * (Abs(x) + Abs(y)) THEN FALSE
    ELSE z * z < t * t * (x * x + y * y)

\* fabs(y / x) < t; y / 0 is infinite or NaN and compares false
RatioBelow(y, x, t) == x # 0 /\ Abs(y) < t * Abs(x)

\* the test that keeps a point
KeepPoint(pt) ==
    /\ \/ AngleDisabled(maxAllowedElevationAngleDeg)
       \/ RatioSquaredBelow(pt.zn, pt.xn, pt.yn, Tan(maxAllowedElevationAngleDeg))
    /\ \/ AngleDisabled(maxAllowedAzimuthAngleDeg)
       \/ RatioBelow(pt.yn, pt.xn, Tan(maxAllowedAzimuthAngleDeg))
    /\ pt.xn # 0

\* the while(i < mmwData.numObjOut) loop; last is mmwData.objOut, the result
\* is << crash, currentDatap, i, numObjOut, points, objOut >>
RECURSIVE ObjLoop(_, _, _, _, _, _, _, _)
ObjLoop(buf, d, i, n, points, q, junk, last) ==
    IF ~(i < n) THEN << FALSE, d, i, n, points, last >>
    ELSE IF \E f \in 0..5 : ~AtOk(buf, d + 2 * f)
         THEN << TRUE, d, i, n, points, last >>
    ELSE LET o == [ rangeIdx |-> Rd16(buf, d, junk),
                    dopplerIdx |-> Rd16(buf, d + 2, junk),
                    peakVal |-> Rd16(buf, d + 4, junk),
                    x |-> Rd16(buf, d + 6, junk),
                    y |-> Rd16(buf, d + 8, junk),
                    z |-> Rd16(buf, d + 10, junk) ]
             pt == PointOf(o, q)
             written == [points EXCEPT ![i + 1] = pt]
         IN  IF KeepPoint(pt)
             THEN ObjLoop(buf, d + 12, i + 1, n, written, q, junk, o)
             ELSE ObjLoop(buf, d + 12, i, (n - 1) % U16, written, q, junk, o)

\* case READ_OBJ_STRUCT.  fault: the read of RScan->points[0] for the log
\* line faults when the resized cloud is empty.
ReadObjStruct(buf, L, junk, fault) ==
    LET d == L.currentDatap
        numObjOut == Rd16(buf, d, junk)
        q == Rd16(buf, d + 2, junk)
        r == ObjLoop(buf, d + 4, 0, numObjOut,
                     Resize(L.RScan.points, numObjOut), q, junk, L.mmwData.objOut)
        cloud == [width |-> r[4], points |-> Resize(r[5], r[4])]
    IN  IF ~AtOk(buf, d) \/ ~AtOk(buf, d + 2) THEN Crash(L)
        ELSE IF r[1] THEN Crash(L)
        ELSE IF r[4] = 0 /\ fault THEN Crash(L)
        ELSE [L EXCEPT !.currentDatap = r[2],
                       !.mmwData = [L.mmwData EXCEPT !.numObjOut = r[4], !.xyzQFormat = q,
                                                    !.objOut = r[6]],
                       !.RScan = cloud,
                       !.out = << cloud >>,
                       !.sorterState = CHECK_TLV_TYPE]

\* one turn of the switch, for every state but SWAP_BUFFERS
SorterCase(buf, L, junk, fault) ==
    CASE L.sorterState = READ_HEADER -> ReadHeader(buf, L, junk)
      [] L.sorterState = CHECK_TLV_TYPE -> CheckTlvType(buf, L, junk)
      [] L.sorterState = READ_OBJ_STRUCT -> ReadObjStruct(buf, L, junk, fault)
      [] OTHER -> SkipTlv(L)

\* pthread_mutex_lock(&countSync_mutex) before the first wait
SorterLockCount ==
    /\ Alive
    /\ pc["sorter"] = "s_lock_cs0"
    /\ MutexFree(countSync_mutex)
    /\ countSync_mutex' = "sorter"
    /\ pc' = Goto("sorter", "s_enter_wait0")
    /\ UNCHANGED << config, rosOk, crashed, countSync, currentBufp, nextBufp, pingPongBuffers,
                    nextBufp_mutex, currentBufp_mutex, destroyed,
                    readerVars, sorterVars, linkVars, published, history >>

\* pthread_cond_wait(&sort_go_cv, &countSync_mutex), before the loop and in
\* SWAP_BUFFERS: release the mutex and block
SorterWait ==
    /\ Alive
    /\ pc["sorter"] \in {"s_enter_wait0", "s_enter_wait"}
    /\ countSync_mutex' = "none"
    /\ pc' = Goto("sorter", IF pc["sorter"] = "s_enter_wait0" THEN "s_wait0" ELSE "s_wait")
    /\ UNCHANGED << config, rosOk, crashed, countSync, currentBufp, nextBufp, pingPongBuffers,
                    nextBufp_mutex, currentBufp_mutex, destroyed,
                    readerVars, sorterVars, linkVars, published, history >>

\* the wait returns: the mutex is held again
SorterWake ==
    /\ Alive
    /\ pc["sorter"] \in {"s_relock0", "s_relock"}
    /\ MutexFree(countSync_mutex)
    /\ countSync_mutex' = "sorter"
    /\ pc' = Goto("sorter", IF pc["sorter"] = "s_relock0" THEN "s_unlock_cs0" ELSE "s_unlock_cs")
    /\ UNCHANGED << config, rosOk, crashed, countSync, currentBufp, nextBufp, pingPongBuffers,
                    nextBufp_mutex, currentBufp_mutex, destroyed,
                    readerVars, sorterVars, linkVars, published, history >>

\* pthread_mutex_unlock(&countSync_mutex)
SorterUnlockCount ==
    /\ Alive
    /\ pc["sorter"] \in {"s_unlock_cs0", "s_unlock_cs"}
    /\ countSync_mutex' = "none"
    /\ pc' = Goto("sorter", IF pc["sorter"] = "s_unlock_cs0" THEN "s_lock_cur0" ELSE "s_lock_cur")
    /\ UNCHANGED << config, rosOk, crashed, countSync, currentBufp, nextBufp, pingPongBuffers,
                    nextBufp_mutex, currentBufp_mutex, destroyed,
                    readerVars, sorterVars, linkVars, published, history >>

\* pthread_mutex_lock(&currentBufp_mutex), before the loop and in SWAP_BUFFERS
SorterLockCurrent ==
    /\ Alive
    /\ pc["sorter"] \in {"s_lock_cur0", "s_lock_cur"}
    /\ MutexFree(currentBufp_mutex)
    /\ currentBufp_mutex' = "sorter"
    /\ pc' = Goto("sorter", IF pc["sorter"] = "s_lock_cur0" THEN "s_loop" ELSE "s_reset")
    /\ drainLog' = Append(drainLog, bufTag[currentBufp])
    /\ UNCHANGED << config, rosOk, crashed, countSync, currentBufp, nextBufp, pingPongBuffers,
                    countSync_mutex, nextBufp_mutex, destroyed,
                    readerVars, sorterVars, linkVars, published,
                    framed, swaps, drains, bufTag, readerBuf, sorterBuf, skipped >>

\* currentDatap = 0; tlvCount = 0; sorterState = READ_HEADER
SorterReset ==
    /\ Alive
    /\ pc["sorter"] = "s_reset"
    /\ currentDatap' = 0
    /\ tlvCount' = 0
    /\ sorterState' = READ_HEADER
    /\ pc' = Goto("sorter", "s_loop")
    /\ UNCHANGED << config, rosOk, crashed, countSync, currentBufp, nextBufp, pingPongBuffers,
                    countSync_mutex, nextBufp_mutex, currentBufp_mutex, destroyed,
                    readerVars, tlvType, tlvLen, headerSize, mmwData, RScan,
                    linkVars, published, history >>

\* One turn of while(ros::ok()) switch(sorterState), for every state but
\* SWAP_BUFFERS, on *currentBufp.
SorterStep ==
    /\ Alive
    /\ pc["sorter"] = "s_loop"
    /\ rosOk
    /\ sorterState # SWAP_BUFFERS
    /\ \E junk \in JunkBytes, fault \in BOOLEAN :
          LET R == SorterCase(pingPongBuffers[currentBufp], SorterNow, junk, fault)
          IN  IF R.crash
              THEN Die
              ELSE /\ sorterState' = R.sorterState
                   /\ currentDatap' = R.currentDatap
                   /\ tlvCount' = R.tlvCount
                   /\ tlvType' = R.tlvType
                   /\ tlvLen' = R.tlvLen
                   /\ headerSize' = R.headerSize
                   /\ mmwData' = R.mmwData
                   /\ RScan' = R.RScan
                   /\ published' = published \o
                        [k \in 1..Len(R.out) |->
                           [frame |-> bufTag[currentBufp],
                            size |-> Len(pingPongBuffers[currentBufp]),
                            header |-> R.mmwData,
                            cloud |-> R.out[k]]]
                   /\ sorterBuf' = currentBufp
                   /\ UNCHANGED << config, rosOk, crashed, pc, countSync, currentBufp, nextBufp,
                                   pingPongBuffers, countSync_mutex, nextBufp_mutex,
                                   currentBufp_mutex, destroyed, readerVars, linkVars,
                                   framed, swaps, drains, bufTag, drainLog, readerBuf, skipped >>

\* ros::ok() is false at the top of the loop: exit.
SorterExit ==
    /\ Alive
    /\ pc["sorter"] = "s_loop"
    /\ ~rosOk
    /\ pc' = Goto("sorter", "s_done")
    /\ UNCHANGED << config, rosOk, crashed, countSync, currentBufp, nextBufp, pingPongBuffers,
                    countSync_mutex, nextBufp_mutex, currentBufp_mutex, destroyed,
                    readerVars, sorterVars, linkVars, published, history >>

\* case SWAP_BUFFERS: pthread_mutex_lock(&countSync_mutex), still holding
\* currentBufp_mutex
SorterSwapLock ==
    /\ Alive
    /\ pc["sorter"] = "s_loop"
    /\ rosOk
    /\ sorterState = SWAP_BUFFERS
    /\ MutexFree(countSync_mutex)
    /\ countSync_mutex' = "sorter"
    /\ pc' = Goto("sorter", "s_unlock_cur")
    /\ UNCHANGED << config, rosOk, crashed, countSync, currentBufp, nextBufp, pingPongBuffers,
                    nextBufp_mutex, currentBufp_mutex, destroyed,
                    readerVars, sorterVars, linkVars, published, history >>

\* pthread_mutex_unlock(&currentBufp_mutex)
SorterUnlockCurrent ==
    /\ Alive
    /\ pc["sorter"] = "s_unlock_cur"
    /\ currentBufp_mutex' = "none"
    /\ sorterBuf' = -1
    /\ pc' = Goto("sorter", "s_inc")
    /\ UNCHANGED << config, rosOk, crashed, countSync, currentBufp, nextBufp, pingPongBuffers,
                    countSync_mutex, nextBufp_mutex, destroyed,
                    readerVars, sorterVars, linkVars, published,
                    framed, swaps, drains, bufTag, drainLog, readerBuf, skipped >>

\* countSync++
SorterCount ==
    /\ Alive
    /\ pc["sorter"] = "s_inc"
    /\ countSync' = countSync + 1
    /\ drains' = drains + 1
    /\ pc' = Goto("sorter", "s_sig")
    /\ UNCHANGED << config, rosOk, crashed, currentBufp, nextBufp, pingPongBuffers,
                    countSync_mutex, nextBufp_mutex, currentBufp_mutex, destroyed,
                    readerVars, sorterVars, linkVars, published,
                    framed, swaps, bufTag, drainLog, readerBuf, sorterBuf, skipped >>

\* if(countSync == COUNT_SYNC_MAX) pthread_cond_signal(&countSync_max_cv)
SorterSignal ==
    /\ Alive
    /\ pc["sorter"] = "s_sig"
    /\ pc' = [ (IF AtMax(countSync)
                 THEN Signal(pc, "swap", "w_wait", "w_relock") ELSE pc)
               EXCEPT !["sorter"] = "s_enter_wait" ]
    /\ UNCHANGED << config, rosOk, crashed, countSync, currentBufp, nextBufp, pingPongBuffers,
                    countSync_mutex, nextBufp_mutex, currentBufp_mutex, destroyed,
                    readerVars, sorterVars, linkVars, published, history >>

Sorter ==
    \/ SorterLockCount
    \/ SorterWait
    \/ SorterWake
    \/ SorterUnlockCount
    \/ SorterLockCurrent
    \/ SorterReset
    \/ SorterStep
    \/ SorterExit
    \/ SorterSwapLock
    \/ SorterUnlockCurrent
    \/ SorterCount
    \/ SorterSignal

\* ------------------------------------------------------ specifications
Next ==
    \/ Main
    \/ Reader
    \/ Sorter
    \/ Swap
    \/ Transmit
    \/ Shutdown

Spec == Init /\ [][Next]_vars

\* The scheduler runs every thread that can run, and the sensor keeps
\* sending; shutdown and failures stay possible but are not forced.
FairSpec ==
    /\ Spec
    /\ WF_vars(Main)
    /\ WF_vars(Reader)
    /\ WF_vars(Sorter)
    /\ WF_vars(Swap)
    /\ WF_vars(Transmit)

\* -------------------------------------------------- the Sorter on one frame
\* The Sorter's state machine on its own, on a drain buffer that holds any
\* frame of ParseFrames followed by the next magic word, under any filter
\* setting of AngleChoices: the state just after the first exchange, when
\* the Sorter has taken currentBufp_mutex and the Reader is about to resume.
AngleChoices == { 0, 45, 90 }

TlvHeader(type, len) == LE32(type) \o LE32(len)

RECURSIVE ObjsBytes(_)
ObjsBytes(objs) ==
    IF objs = <<>> THEN <<>> ELSE ObjBytes(Head(objs)) \o ObjsBytes(Tail(objs))

\* a detected-objects TLV that announces numObj objects and carries objs
PointsTlv(numObj, q, objs) ==
    TlvHeader(MMWDEMO_OUTPUT_MSG_DETECTED_POINTS, 4 + 12 * Len(objs))
      \o LE16(numObj) \o LE16(q) \o ObjsBytes(objs)

\* a frame of the given TLV bytes; slack is added to the true totalPacketLen
Frame(numDetectedObj, numTLVs, tlvs, slack) ==
    Header28(Version12, 28 + Len(tlvs) + 4 + slack, Platform1443, 7,
             numDetectedObj, numTLVs) \o tlvs

\* an object at the origin (x = 0), and one whose coordinates come from
\* rangeIdx alone (x = 3, y = -3, z = 3 at Q0)
ObjOrigin == [rangeIdx |-> 0, dopplerIdx |-> 0, peakVal |-> 0, x |-> 0, y |-> 0, z |-> 0]
ObjNear == [rangeIdx |-> 3, dopplerIdx |-> 9, peakVal |-> 9, x |-> 0, y |-> 0, z |-> 0]
ObjKinds == { Obj1, ObjOrigin, ObjNear }
ObjSeqs ==
    { <<>> } \cup { <<a>> : a \in ObjKinds }
             \cup { <<a, b>> : a \in ObjKinds, b \in ObjKinds }
             \cup { <<ObjOrigin, Obj1, ObjOrigin>> }

OnePoint == PointsTlv(1, QFormat, <<Obj1>>)

\* SDK 1.0 (minor version below 1) and the xWR1642 platform word.
Version10 == 16777216
Platform1642 == 5698
\* a frame with one detected-objects TLV from the given SDK version and
\* platform; sub is what the sensor sends between numTLVs and the first TLV
\* (subFrameNumber, or nothing in the 28-byte header)
FrameOn(version, platform, sub) ==
    Header28(version, 28 + Len(sub) + Len(OnePoint) + 4, platform, 7, 1, 1)
      \o sub \o OnePoint
UnknownTlvType == 9

ParseFrames ==
    \* one detected-objects TLV, the header announcing what it carries
    { Frame(Len(objs), 1, PointsTlv(Len(objs), QFormat, objs), 0) : objs \in ObjSeqs }
    \cup
    { FrameShort,
      \* the same at Q0
      Frame(1, 1, PointsTlv(1, 0, <<ObjNear>>), 0),
      \* the TLV carries more objects than the header announces
      Frame(1, 1, PointsTlv(2, QFormat, <<Obj1, Obj1>>), 0),
      \* the TLV announces more objects than it carries
      Frame(3, 1, PointsTlv(3, QFormat, <<Obj1>>), 0),
      \* two detected-objects TLVs
      Frame(2, 2, OnePoint \o PointsTlv(1, QFormat, <<ObjNear>>), 0),
      \* a TLV of a type outside the enumeration after the objects
      Frame(1, 2, OnePoint \o TlvHeader(UnknownTlvType, 0), 0),
      \* MMWDEMO_OUTPUT_MSG_MAX after the objects
      Frame(1, 2, OnePoint \o TlvHeader(MMWDEMO_OUTPUT_MSG_MAX, 0), 0),
      \* a statistics TLV of 4 bytes before the objects
      Frame(1, 2, TlvHeader(MMWDEMO_OUTPUT_MSG_STATS, 4) \o LE32(0) \o OnePoint, 0),
      \* the header announces one TLV more than the frame carries
      Frame(1, 2, OnePoint, 0),
      \* totalPacketLen off by one
      Frame(1, 1, OnePoint, 1),
      \* SDK 1.2 on an xWR1642: the 32-byte header
      FrameOn(Version12, Platform1642, LE32(0)),
      \* SDK 1.0: the 28-byte header, on either platform
      FrameOn(Version10, Platform1443, <<>>),
      FrameOn(Version10, Platform1642, <<>>) }

ParseInit ==
    /\ rosOk = TRUE
    /\ crashed = FALSE
    /\ pc = [main |-> "spin", reader |-> "r_relock", sorter |-> "s_loop", swap |-> "w_wait"]
    /\ countSync = 0
    /\ currentBufp = SwapPointers(InitPointers[1], InitPointers[2])[1]
    /\ nextBufp = SwapPointers(InitPointers[1], InitPointers[2])[2]
    /\ \E f \in ParseFrames :
          pingPongBuffers = [b \in 0..1 |-> IF b = currentBufp THEN f \o magicWord ELSE <<>>]
    /\ countSync_mutex = "none"
    /\ nextBufp_mutex = "none"
    /\ currentBufp_mutex = "sorter"
    /\ destroyed = FALSE
    /\ maxAllowedElevationAngleDeg \in AngleChoices
    /\ maxAllowedAzimuthAngleDeg \in AngleChoices
    /\ firstPacketReady = 1
    /\ last8Bytes = magicWord
    /\ sorterState = READ_HEADER
    /\ currentDatap = 0
    /\ tlvCount = 0
    /\ tlvType = MMWDEMO_OUTPUT_MSG_NULL
    /\ tlvLen = 0
    /\ headerSize = 0
    /\ mmwData = ZeroData
    /\ RScan = [width |-> 0, points |-> <<>>]
    /\ rx = <<>>
    /\ framesSent = 1
    /\ timeouts = 0
    /\ published = <<>>
    /\ framed = 1
    /\ swaps = 1
    /\ drains = 0
    /\ bufTag = [b \in 0..1 |-> IF b = currentBufp THEN 1 ELSE 0]
    /\ drainLog = <<1>>
    /\ readerBuf = -1
    /\ sorterBuf = -1
    /\ skipped = Len(magicWord)

ParseNext == SorterStep

ParseSpec == ParseInit /\ [][ParseNext]_vars

\* ---------------------------------------------------------------- properties
\* Where each worker is with respect to the buffer it works on.
ReaderFilling == pc["reader"] \in {"r_loop", "r_lock_cs", "r_unlock_next", "r_clear"}
SorterDraining == pc["sorter"] \in {"s_loop", "s_unlock_cur", "s_reset"}
Terminated(t) == pc[t] \in {"idle", "r_done", "s_done", "w_done", "dead"}

\* C1: in every reachable state the fill pointer and the drain pointer
\* designate the two different ping/pong buffers.
C1_DistinctPointers ==
    /\ currentBufp \in 0..1
    /\ nextBufp \in 0..1
    /\ currentBufp # nextBufp

\* The pointers after an exchange, both workers at work on their buffers.
C1_Witness ==
    /\ swaps = 1
    /\ currentBufp = 1
    /\ nextBufp = 0
    /\ pc["reader"] = "r_loop"
    /\ pc["sorter"] = "s_loop"

\* C2: the Reader never appends to or clears a buffer that the Sorter is
\* reading: the buffers the two have touched under their buffer locks differ.
C2_DisjointBuffers ==
    (readerBuf # -1 /\ sorterBuf # -1) => readerBuf # sorterBuf

\* The Reader fills one buffer while the Sorter parses the other.
C2_Witness ==
    /\ pc["reader"] = "r_loop"
    /\ pc["sorter"] = "s_loop"
    /\ readerBuf = 0
    /\ sorterBuf = 1
    /\ Len(pingPongBuffers[0]) > 0
    /\ currentDatap > 0

\* C3: countSync stays within 0..2; only the Reader at a frame boundary and
\* the Sorter at the end of a drain raise it, only Swap resets it to 0.
C3_CountSyncRange ==
    /\ [](countSync \in 0..COUNT_SYNC_MAX)
    /\ [][countSync' # countSync =>
            \/ pc["reader"] = "r_inc" /\ countSync' > countSync
            \/ pc["sorter"] = "s_inc" /\ countSync' = countSync + 1
            \/ pc["swap"] = "w_reset" /\ countSync' = 0
            \/ crashed']_vars

\* The Reader has just counted the first frame boundary twice.
C3_Witness ==
    /\ countSync = COUNT_SYNC_MAX
    /\ swaps = 0
    /\ firstPacketReady = 1
    /\ pc["reader"] = "r_sig"

C5_SwapHoldsBoth ==
    (currentBufp_mutex = "swap" /\ nextBufp_mutex = "swap") =>
        /\ pc["reader"] = "r_wait"
        /\ pc["sorter"] \in {"s_wait0", "s_wait"}

\* The mutexes a thread holds, by their place in the order
\* countSync_mutex (1), nextBufp_mutex (2), currentBufp_mutex (3).
Held(t) ==
    (IF countSync_mutex = t THEN {1} ELSE {}) \cup
    (IF nextBufp_mutex = t THEN {2} ELSE {}) \cup
    (IF currentBufp_mutex = t THEN {3} ELSE {})

HeldNext(t) ==
    (IF countSync_mutex' = t THEN {1} ELSE {}) \cup
    (IF nextBufp_mutex' = t THEN {2} ELSE {}) \cup
    (IF currentBufp_mutex' = t THEN {3} ELSE {})

\* C6: every lock acquisition follows the order countSync_mutex ->
\* nextBufp_mutex -> currentBufp_mutex: a thread that acquires a mutex holds
\* none that comes later in the order.
C6_LockOrder ==
    [][\A t \in Threads : \A m \in HeldNext(t) \ Held(t) :
            \A h \in Held(t) : h < m]_vars

\* C7: the n-th buffer the Sorter takes up is the n-th frame the Reader
\* delimited.
C7_DrainOrder ==
    /\ Len(drainLog) <= framed
    /\ \A n \in 1..Len(drainLog) : drainLog[n] = n

\* The Sorter has taken up the first and then the second frame.
C7_Witness ==
    /\ drainLog = <<1, 2>>
    /\ pc["sorter"] = "s_loop"
    /\ currentDatap > 0

\* C8: after a frame boundary the Reader appends nothing until Swap has
\* exchanged the roles; the exchange after the first waits for the Sorter to
\* finish the previous drain; the Reader is never more than one frame ahead.
C8_Backpressure ==
    /\ [](framed <= drains + 2 /\ (ReaderFilling /\ pc["reader"] # "r_lock_cs"
                                     /\ pc["reader"] # "r_unlock_next"
                                        => framed <= drains + 1))
    /\ [][(\E b \in 0..1 : Len(pingPongBuffers'[b]) > Len(pingPongBuffers[b]))
            => swaps = framed]_vars
    /\ [][(swaps' = swaps + 1 /\ swaps >= 1) => drains >= swaps]_vars

\* The Reader waits at the second boundary while the Sorter still drains the
\* first frame.
C8_Witness ==
    /\ framed = 2
    /\ swaps = 1
    /\ drains = 0
    /\ pc["reader"] = "r_wait"
    /\ pc["sorter"] = "s_loop"

\* C9: once shutdown is requested the three threads terminate, also from
\* the condition waits, and none is still running when the mutexes and
\* condition variables are destroyed.
C9_Cancellation ==
    /\ destroyed => \A t \in Threads : Terminated(t)
    /\ ~rosOk => \/ \A t \in Threads : Terminated(t)
                 \/ ENABLED (Reader \/ Sorter \/ Swap)

\* C10: a header whose totalPacketLen is not the buffer size less 4 takes the
\* Sorter from READ_HEADER to SWAP_BUFFERS with nothing published, no cloud is
\* ever published from such a buffer, and the Sorter leaves SWAP_BUFFERS only
\* after the swap, into READ_HEADER with currentDatap = 0 and tlvCount = 0.
C10_LengthMismatch ==
    /\ [](\A k \in 1..Len(published) :
            published[k].header.totalPacketLen = published[k].size - 4)
    /\ [][(/\ sorterState = READ_HEADER
           /\ sorterState' # READ_HEADER
           /\ ~crashed'
           /\ Len(pingPongBuffers[currentBufp]) >= 12
           /\ mmwData'.totalPacketLen # Len(pingPongBuffers[currentBufp]) - 4)
            => sorterState' = SWAP_BUFFERS /\ published' = published]_vars
    /\ [][(sorterState = SWAP_BUFFERS /\ sorterState' # SWAP_BUFFERS /\ ~crashed')
            => /\ sorterState' = READ_HEADER
               /\ currentDatap' = 0
               /\ tlvCount' = 0
               /\ swaps = drains + 1
               /\ published' = published]_vars

\* The Sorter is back in READ_HEADER on the second frame after it gave up
\* the first, whose header announced 57 bytes in a buffer of 60.
C10_Witness ==
    /\ drainLog = <<1, 2>>
    /\ pc["sorter"] = "s_loop"
    /\ sorterState = READ_HEADER
    /\ currentDatap = 0
    /\ tlvCount = 0
    /\ mmwData.totalPacketLen = 57
    /\ published = <<>>

\* The frame in the drain buffer has published a cloud.
PublishedFromCurrent ==
    \E k \in 1..Len(published) : published[k].frame = bufTag[currentBufp]

\* C11: a step in which the Sorter meets a failure in the frame (the header
\* sends it to SWAP_BUFFERS, a TLV type is none of the six it parses, the
\* cursor runs past the end of the buffer) finds no cloud published from it.
C11_NoPartialFrame ==
    [][(\/ crashed' /\ rosOk /\ pc["sorter"] = "s_loop"
        \/ sorterState = READ_HEADER /\ sorterState' = SWAP_BUFFERS
        \/ /\ sorterState = CHECK_TLV_TYPE
           /\ tlvCount' = tlvCount + 1
           /\ sorterState' # SWAP_BUFFERS
           /\ tlvType' \notin { MMWDEMO_OUTPUT_MSG_DETECTED_POINTS,
                                MMWDEMO_OUTPUT_MSG_RANGE_PROFILE,
                                MMWDEMO_OUTPUT_MSG_NOISE_PROFILE,
                                MMWDEMO_OUTPUT_MSG_AZIMUTH_STATIC_HEAT_MAP,
                                MMWDEMO_OUTPUT_MSG_RANGE_DOPPLER_HEAT_MAP,
                                MMWDEMO_OUTPUT_MSG_STATS })
        => ~PublishedFromCurrent]_vars

\* C12: no published cloud has more points than the numDetectedObj of the
\* header of its frame.
C12_AtMostDeclared ==
    \A k \in 1..Len(published) :
        /\ published[k].cloud.width <= published[k].header.numDetectedObj
        /\ Len(published[k].cloud.points) <= published[k].header.numDetectedObj

\* C13: every point of every published cloud has x # 0 and passes the
\* elevation and the azimuth filter; the cloud is as wide as it has points.
C13_FilteredPoints ==
    \A k \in 1..Len(published) :
        LET cloud == published[k].cloud
        IN  /\ cloud.width = Len(cloud.points)
            /\ \A n \in 1..Len(cloud.points) :
                 LET pt == cloud.points[n]
                 IN  /\ pt.xn # 0
                     /\ \/ ~(maxAllowedElevationAngleDeg >= 0 /\ maxAllowedElevationAngleDeg < 90)
                        \/ RatioSquaredBelow(pt.zn, pt.xn, pt.yn,
                                             Tan(maxAllowedElevationAngleDeg))
                     /\ \/ ~(maxAllowedAzimuthAngleDeg >= 0 /\ maxAllowedAzimuthAngleDeg < 90)
                        \/ RatioBelow(pt.yn, pt.xn, Tan(maxAllowedAzimuthAngleDeg))

\* A cloud of one point from a payload of two objects, the second of which
\* (the last one read) was dropped, with the azimuth filter at 45 degrees.
C13_Witness ==
    /\ Len(published) = 1
    /\ published[1].header.numDetectedObj = 2
    /\ published[1].cloud.width = 1
    /\ mmwData.objOut = ObjOrigin
    /\ maxAllowedAzimuthAngleDeg = 45

\* C14: no two published clouds come from the same frame.
C14_OneCloudPerFrame ==
    \A j, k \in 1..Len(published) :
        j # k => published[j].frame # published[k].frame

\* C17: the point written for an object satisfies x * 2^q = yQ,
\* y * 2^q = -xQ and z * 2^q = zQ.  Stated where the published cloud has
\* one point and the payload one object, mmwData.objOut.
C17_QFormat ==
    (/\ pc["sorter"] = "s_loop"
     /\ sorterState = CHECK_TLV_TYPE
     /\ tlvType = MMWDEMO_OUTPUT_MSG_DETECTED_POINTS
     /\ tlvLen = 16
     /\ RScan.width = 1
     /\ mmwData.xyzQFormat < 31)
    => LET pt == RScan.points[1]
           o == mmwData.objOut
       IN  /\ pt.den = 2 ^ mmwData.xyzQFormat
           /\ pt.xn = S16(o.y)
           /\ pt.yn = -S16(o.x)
           /\ pt.zn = S16(o.z)

\* The buffers a stream that starts at the magic word hands to the Sorter.
CleanBuffers == { f \o magicWord : f \in FrameKinds }
IsPrefix(a, b) == Len(a) <= Len(b) /\ a = SubSeq(b, 1, Len(a))

\* C15: whatever garbage precedes the first magic word, when no read has
\* timed out: the resync leaves both buffers empty, having read the garbage
\* and the magic word; the fill buffer then only ever holds the
\* bytes of the first frame; the first buffer the Sorter takes up is a frame
\* followed by the next magic word, as for a stream without garbage.
C15_ResyncIdempotent ==
    timeouts = 0 =>
        /\ pc["reader"] = "r_lock_next0"
              => /\ pingPongBuffers = [b \in 0..1 |-> <<>>]
                 /\ skipped \in { Len(g) + Len(magicWord) : g \in Garbage }
        /\ (framed = 0 /\ ~crashed)
              => /\ \E c \in CleanBuffers : IsPrefix(pingPongBuffers[nextBufp], c)
                 /\ pingPongBuffers[currentBufp] = <<>>
        /\ (drainLog = <<1>> /\ pc["sorter"] = "s_loop")
              => pingPongBuffers[currentBufp] \in CleanBuffers

\* After eight bytes of garbage that hold a seven-byte prefix of the magic
\* word, the Sorter has published the cloud of the first frame.
C15_Witness ==
    /\ skipped = 16
    /\ timeouts = 0
    /\ drainLog = <<1>>
    /\ pc["sorter"] = "s_loop"
    /\ pingPongBuffers[currentBufp] = FrameObjOk \o magicWord
    /\ Len(published) = 1

\* C16: the Reader tries to open the port at most twice; when the second
\* attempt fails it terminates, having touched neither the buffers nor
\* countSync, and a shutdown of the process has been requested.
C16_PortOpenFailure ==
    [][/\ (pc["reader"] = "r_open" /\ pc'["reader"] # "r_open" /\ ~crashed')
            => pc'["reader"] \in {"r_sync", "r_retry"}
       /\ (pc["reader"] = "r_retry" /\ pc'["reader"] # "r_retry" /\ ~crashed')
            => pc'["reader"] \in {"r_sync", "r_done"}
       /\ (pc["reader"] = "r_retry" /\ pc'["reader"] = "r_done")
            => /\ pingPongBuffers' = [b \in 0..1 |-> <<>>]
               /\ countSync' = countSync
               /\ framed' = 0
               /\ ~rosOk']_vars

\* Increments of countSync made so far by the Reader (two for the first
\* boundary, one for each later one) and by the Sorter, and resets by Swap.
ReaderCounted ==
    LET n == IF pc["reader"] \in {"r_lock_cs", "r_unlock_next", "r_inc"}
             THEN framed - 1 ELSE framed
    IN  IF n > 0 THEN n + 1 ELSE 0
SwapResets ==
    IF pc["swap"] \in {"w_unlock_cur", "w_unlock_next", "w_reset"} THEN swaps - 1 ELSE swaps

\* C18: Swap exchanges the pointers only with countSync = 2 and holding
\* countSync_mutex; countSync is back to 0 before a worker is released from
\* its wait; every exchange uses up two increments, so none is used twice.
C18_SwapOnlyAtMax ==
    /\ [](~crashed => countSync + COUNT_SYNC_MAX * SwapResets = ReaderCounted + drains)
    /\ [][swaps' = swaps + 1
            => countSync = COUNT_SYNC_MAX /\ countSync_mutex = "swap"]_vars
    /\ [][(\/ pc["reader"] = "r_wait" /\ pc'["reader"] = "r_relock"
           \/ pc["sorter"] = "s_wait0" /\ pc'["sorter"] = "s_relock0"
           \/ pc["sorter"] = "s_wait" /\ pc'["sorter"] = "s_relock")
            => countSync = 0 /\ countSync_mutex = "swap"]_vars

\* The second exchange has just been made, on the signals of both workers.
C18_Witness ==
    /\ pc["swap"] = "w_unlock_cur"
    /\ swaps = 2
    /\ drains = 1
    /\ countSync = COUNT_SYNC_MAX
    /\ pc["reader"] = "r_wait"
    /\ pc["sorter"] = "s_wait"

\* C19: unless the process shuts down, whenever countSync is 2 Swap
\* eventually makes the next exchange and resets the count, the Sorter
\* eventually takes up the exchanged buffer and the Reader eventually clears
\* the other one to fill it.
C19_BarrierProgress ==
    \A n \in 0..MaxFrames :
        /\ (countSync = COUNT_SYNC_MAX /\ swaps = n)
              ~> (~rosOk \/ (swaps = n + 1 /\ countSync = 0))
        /\ (countSync = COUNT_SYNC_MAX /\ swaps = n)
              ~> (~rosOk \/ Len(drainLog) = n + 1)
        /\ (countSync = COUNT_SYNC_MAX /\ swaps = n)
              ~> (~rosOk \/ (swaps = n + 1 /\ pc["reader"] = "r_clear"))

\* C20: the Reader adds 2 to countSync on the first frame boundary and 1 on
\* every later one; the first exchange is made with no drain completed,
\* every later one after one more boundary and one more drain.
C20_FirstFrameDouble ==
    /\ [][(pc["reader"] = "r_inc" /\ countSync' # countSync /\ ~crashed')
            => countSync' = countSync + (IF framed = 1 THEN 2 ELSE 1)]_vars
    /\ [][swaps' = swaps + 1
            => /\ framed = swaps + 1
               /\ drains = swaps
               /\ swaps = 0 => pc["sorter"] \in {"idle", "s_lock_cs0", "s_enter_wait0", "s_wait0"}]_vars

\* The second exchange is complete and the count reset: two boundaries and
\* one drain have been counted.
C20_Witness ==
    /\ pc["swap"] = "w_sig_sort"
    /\ swaps = 2
    /\ drains = 1
    /\ framed = 2
    /\ countSync = 0
    /\ firstPacketReady = 1

\* C21: a READ_HEADER step that goes on to CHECK_TLV_TYPE consumes
\* headerSize bytes, where headerSize is 28 when the SDK major or minor
\* version is below 1 or the platform is 0x1443, and 32 otherwise.
C21_HeaderSize ==
    [][(pc["sorter"] = "s_loop" /\ sorterState = READ_HEADER
          /\ sorterState' = CHECK_TLV_TYPE)
        => /\ headerSize' =
                 IF \/ (mmwData'.version \div 16777216) % 256 < 1
                    \/ (mmwData'.version \div 65536) % 256 < 1
                    \/ mmwData'.platform % 65536 = 5187
                 THEN 28 ELSE 32
           /\ currentDatap' = currentDatap + headerSize']_vars

\* C22: a CHECK_TLV_TYPE step goes to SWAP_BUFFERS when tlvCount has
\* reached numTLVs; otherwise type 1 goes to READ_OBJ_STRUCT, 2 to
\* READ_LOG_MAG_RANGE, 3 to READ_NOISE, 4 to READ_AZIMUTH, 5 to READ_DOPPLER,
\* 6 to READ_STATS, 0 stays in CHECK_TLV_TYPE and every other type goes to
\* READ_HEADER.
C22_TlvDispatch ==
    [][(pc["sorter"] = "s_loop" /\ sorterState = CHECK_TLV_TYPE /\ ~crashed')
        => IF ~Below32(tlvCount, mmwData.numTLVs)
           THEN sorterState' = SWAP_BUFFERS
           ELSE sorterState' =
                  CASE tlvType' = 0 -> "CHECK_TLV_TYPE"
                    [] tlvType' = 1 -> "READ_OBJ_STRUCT"
                    [] tlvType' = 2 -> "READ_LOG_MAG_RANGE"
                    [] tlvType' = 3 -> "READ_NOISE"
                    [] tlvType' = 4 -> "READ_AZIMUTH"
                    [] tlvType' = 5 -> "READ_DOPPLER"
                    [] tlvType' = 6 -> "READ_STATS"
                    [] OTHER -> "READ_HEADER"]_vars

\* The turn the Sorter is about to take needs bytes of *currentBufp at or
\* beyond size(): a header re-read at a non-zero cursor, a TLV header, or
\* the objects a detected-objects TLV announces.
Overrun ==
    LET buf == pingPongBuffers[currentBufp]
        d == currentDatap
    IN  CASE sorterState = READ_HEADER ->
               Len(buf) >= 12 /\ d > 0 /\ d + 12 > Len(buf)
          [] sorterState = CHECK_TLV_TYPE ->
               Below32(tlvCount, mmwData.numTLVs) /\ d + 8 > Len(buf)
          [] sorterState = READ_OBJ_STRUCT ->
               \/ d + 4 > Len(buf)
               \/ d + 4 + 12 * Rd16(buf, d, 0) > Len(buf)
          [] OTHER -> FALSE

\* C23: when the cursor would overrun the drain buffer the Sorter does not
\* read past its end: the turn ends in SWAP_BUFFERS with nothing published
\* and the thread keeps running.
C23_NoOverrun ==
    [][(pc["sorter"] = "s_loop" /\ rosOk /\ Overrun)
        => /\ ~crashed'
           /\ sorterState' = SWAP_BUFFERS
           /\ published' = published]_vars

\* C24: a serial read that times out and returns no byte appends nothing
\* to a buffer and leaves the 8-byte window as it was.
C24_TimeoutAppendsNothing ==
    [][(pc["reader"] \in {"r_sync", "r_loop"} /\ timeouts' = timeouts + 1)
        => /\ pingPongBuffers' = pingPongBuffers
           /\ last8Bytes' = last8Bytes]_vars

\* C25: the Reader's clear after a swap empties the buffer that is the fill
\* target after the exchange and zeroes the window, leaving the drain buffer
\* as it is; from the exchange until the Sorter has counted its drain the
\* drain buffer does not change and ends with the magic word of the next
\* frame, and when no read has timed out it is exactly a transmitted frame
\* followed by that magic word.
C25_ClearFillOnly ==
    /\ [][(pc["reader"] = "r_clear" /\ pc'["reader"] = "r_loop")
            => /\ swaps = framed
               /\ nextBufp # currentBufp
               /\ pingPongBuffers'[nextBufp] = <<>>
               /\ pingPongBuffers'[currentBufp] = pingPongBuffers[currentBufp]
               /\ last8Bytes' = <<0, 0, 0, 0, 0, 0, 0, 0>>]_vars
    /\ [][(swaps > drains /\ swaps' = swaps /\ ~crashed')
            => pingPongBuffers'[currentBufp'] = pingPongBuffers[currentBufp]]_vars
    /\ [](swaps > drains
            => LET buf == pingPongBuffers[currentBufp]
               IN  /\ Len(buf) >= Len(magicWord)
                   /\ SubSeq(buf, Len(buf) - Len(magicWord) + 1, Len(buf)) = magicWord
                   /\ timeouts = 0 => buf \in CleanBuffers)

\* The Reader has cleared its buffer after the second exchange while the
\* Sorter is parsing the second frame.
C25_Witness ==
    /\ pc["reader"] = "r_loop"
    /\ swaps = 2
    /\ drains = 1
    /\ pingPongBuffers[nextBufp] = <<>>
    /\ last8Bytes = ZeroWindow
    /\ pc["sorter"] = "s_loop"
    /\ sorterState = CHECK_TLV_TYPE
    /\ pingPongBuffers[currentBufp] = FrameObjOk \o magicWord

\* C26: every pthread_cond_signal is sent while its receiver is blocked in
\* the matching wait: Swap for countSync_max_cv, the Sorter for sort_go_cv,
\* the Reader for read_go_cv.
C26_NoLostWakeup ==
    [][/\ (pc["reader"] = "r_sig" /\ pc'["reader"] = "r_enter_wait"
             /\ countSync = COUNT_SYNC_MAX) => pc["swap"] = "w_wait"
       /\ (pc["sorter"] = "s_sig" /\ pc'["sorter"] = "s_enter_wait"
             /\ countSync = COUNT_SYNC_MAX) => pc["swap"] = "w_wait"
       /\ (pc["swap"] = "w_sig_sort" /\ pc'["swap"] = "w_sig_read")
             => pc["sorter"] \in {"s_wait0", "s_wait"}
       /\ (pc["swap"] = "w_sig_read" /\ pc'["swap"] = "w_while")
             => pc["reader"] = "r_wait"]_vars

\* C27: a READ_OBJ_STRUCT turn that completes has run the object loop over
\* the N objects the payload announces: the loop ends with i equal to
\* numObjOut equal to the number of objects that pass the filter, the cloud
\* has that many points, and the cursor has advanced by 4 + 12 * N bytes.
C27_ObjectLoop ==
    [][(pc["sorter"] = "s_loop" /\ sorterState = READ_OBJ_STRUCT /\ ~crashed')
        => LET buf == pingPongBuffers[currentBufp]
               d == currentDatap
               N == Rd16(buf, d, 0)
               q == Rd16(buf, d + 2, 0)
               obj(k) == LET at == d + 4 + 12 * (k - 1)
                         IN  [ rangeIdx |-> Rd16(buf, at, 0),
                               dopplerIdx |-> Rd16(buf, at + 2, 0),
                               peakVal |-> Rd16(buf, at + 4, 0),
                               x |-> Rd16(buf, at + 6, 0),
                               y |-> Rd16(buf, at + 8, 0),
                               z |-> Rd16(buf, at + 10, 0) ]
               kept == Cardinality({ k \in 1..N : KeepPoint(PointOf(obj(k), q)) })
               loop == ObjLoop(buf, d + 4, 0, N, Resize(RScan.points, N), q, 0,
                               mmwData.objOut)
           IN  /\ loop[3] = kept
               /\ loop[4] = kept
               /\ loop[2] = d + 4 + 12 * N
               /\ currentDatap' = d + 4 + 12 * N
               /\ mmwData'.numObjOut = kept
               /\ RScan'.width = kept
               /\ Len(RScan'.points) = kept]_vars

\* The loop has run over three objects of which the first and the last were
\* dropped: one point, the cursor 40 bytes further.
C27_Witness ==
    /\ sorterState = CHECK_TLV_TYPE
    /\ tlvCount = 1
    /\ currentDatap = 28 + 8 + 4 + 12 * 3
    /\ mmwData.numObjOut = 1
    /\ Len(RScan.points) = 1
    /\ Len(published) = 1

====
